---- MODULE Spec2Model ----
(***************************************************************************)
(* A model of becca's Ziptie (src/becca/ziptie.py): the incremental        *)
(* clustering engine that zips co-active cables into bundles.              *)
(*                                                                         *)
(* Arrays are functions over 0..len-1, as numpy indexes them.  Activities  *)
(* and energies are integers; the activity threshold .1 is kept in tenths. *)
(* Every public method is one action.  A method that raises leaves the     *)
(* attributes it assigned before the raise, as Python does; the exception  *)
(* is recorded in event.raised.                                            *)
(***************************************************************************)
EXTENDS Integers, Sequences, FiniteSets, TLC

\* ------------------------------------------------------------------ bounds
\* n_cables passed to the constructor (n_bundles is left at None).
NCables == 4
\* threshold passed to the constructor.
Threshold == 1
\* Number of method calls made on the engine in one run.
MaxCalls == 4

\* ------------------------------------------------------- program constants
\* 1e3, the "not yet seen" fill of bundle_activities in featurize.
Sentinel == 1000
\* activity_threshold = .1, in tenths.
ActivityThresholdTenths == 1
\* bundle_map_size at construction.
InitialMapSize == 8

VARIABLES
    n_bundles,             \* self.n_bundles
    bundles_full,          \* self.bundles_full
    cable_activities,      \* self.cable_activities
    bundle_activities,     \* self.bundle_activities
    bundle_map_size,       \* self.bundle_map_size
    bundle_map_rows,       \* self.bundle_map_rows
    bundle_map_cols,       \* self.bundle_map_cols
    n_map_entries,         \* self.n_map_entries
    agglomeration_energy,  \* self.agglomeration_energy
    agglomeration_mask,    \* self.agglomeration_mask
    nucleation_energy,     \* self.nucleation_energy
    nucleation_mask,       \* self.nucleation_mask
    bounds_checked,        \* the build of ziptie_numba checks array bounds
    strict_index,          \* numpy raises on an out-of-range index whose
                           \* companion index array is empty
    event,                 \* the call just made and how it ended
    calls,                 \* number of calls made so far
    scenario               \* position of the run in the two-phase scenario

vars == <<n_bundles, bundles_full, cable_activities, bundle_activities,
          bundle_map_size, bundle_map_rows, bundle_map_cols, n_map_entries,
          agglomeration_energy, agglomeration_mask, nucleation_energy,
          nucleation_mask, bounds_checked, strict_index, event, calls,
          scenario>>

\* ----------------------------------------------------------------- helpers
Cables == 0..(NCables - 1)

\* Rows of the agglomeration matrices: their shape is fixed at construction,
\* when n_bundles is None and self.n_bundles = self.n_cables.
n_bundles_capacity == NCables

Bundles == 0..(n_bundles_capacity - 1)

Arr(len, val) == [i \in 0..(len - 1) |-> val]

Size(a) == Cardinality(DOMAIN a)

Min2(a, b) == IF a <= b THEN a ELSE b

SetMin(S) == CHOOSE x \in S : \A y \in S : x <= y

SetMax(S) == CHOOSE x \in S : \A y \in S : y <= x

Active(a) == 10 * a > ActivityThresholdTenths

\* ------------------------------------------------- becca.tools, ziptie_numba
\* tools.pad: the array copied into a longer one, the new slots set to val.
pad(arr, size, val) ==
    [i \in 0..(size - 1) |-> IF i \in DOMAIN arr THEN arr[i] ELSE val]

\* nb.nucleation_energy_gather: the product of the two activities is added to
\* the pair's energy where the mask allows it and both activities are above
\* the activity threshold.
nucleation_energy_gather(activities, energy, mask) ==
    [p \in DOMAIN energy |->
        IF Active(activities[p[1]]) /\ Active(activities[p[2]])
        THEN energy[p] + activities[p[1]] * activities[p[2]] * mask[p]
        ELSE energy[p]]

\* nb.agglomeration_energy_gather: the same rule between a bundle's activity
\* and a cable's activity.
agglomeration_energy_gather(b_activities, activities, energy, mask) ==
    [p \in DOMAIN energy |->
        IF p[1] \in DOMAIN b_activities
           /\ Active(b_activities[p[1]]) /\ Active(activities[p[2]])
        THEN energy[p] + b_activities[p[1]] * activities[p[2]] * mask[p]
        ELSE energy[p]]

\* nb.max_dense: <<max, row, col>> of the first entry, in row-major order,
\* that holds the maximum; results start at -1.
max_dense(array2d, Rows, Cols) ==
    LET best == SetMax({array2d[p] : p \in Rows \X Cols} \cup {-1})
    IN  IF best = -1 THEN <<-1, -1, -1>>
        ELSE LET r == SetMin({i \in Rows : \E j \in Cols : array2d[<<i, j>>] = best})
                 c == SetMin({j \in Cols : array2d[<<r, j>>] = best})
             IN  <<best, r, c>>

\* nb.set_dense_val: array2d[rows[i], cols[i]] = val for each i in turn.  An
\* index outside the array raises in a bounds-checked build; in an unchecked
\* build the write lands outside the array.
set_dense_val(array2d, rows, cols, n, val, checked) ==
    LET bad == {i \in 0..(n - 1) : <<rows[i], cols[i]>> \notin DOMAIN array2d}
        upto == IF checked /\ bad # {} THEN SetMin(bad) ELSE n
        hit == {<<rows[i], cols[i]>> : i \in 0..(upto - 1)}
    IN  [array |-> [p \in DOMAIN array2d |-> IF p \in hit THEN val ELSE array2d[p]],
         raised |-> IF checked /\ bad # {} THEN "IndexError" ELSE "none"]

\* ------------------------------------------------------------------ Ziptie
\* The attributes of the engine as one record, with the outcome of the call
\* in progress.
Self ==
    [n_bundles |-> n_bundles, bundles_full |-> bundles_full,
     cable_activities |-> cable_activities,
     bundle_activities |-> bundle_activities,
     bundle_map_size |-> bundle_map_size,
     bundle_map_rows |-> bundle_map_rows,
     bundle_map_cols |-> bundle_map_cols,
     n_map_entries |-> n_map_entries,
     agglomeration_energy |-> agglomeration_energy,
     agglomeration_mask |-> agglomeration_mask,
     nucleation_energy |-> nucleation_energy,
     nucleation_mask |-> nucleation_mask,
     raised |-> "none", nucleated |-> <<>>, grown |-> <<>>]

\* array[row, cols] = val with cols an index array: numpy accepts the row
\* index if it lies inside the array; an out-of-range row next to an empty
\* index array raises or is ignored, depending on the numpy release.
RowIndexOk(row, Rows, cols, strict) ==
    row \in Rows \/ (cols = {} /\ ~strict)

\* increment_n_map_entries allocating fresh arrays when the map grows.
increment_n_map_entries_Fresh(s) ==
    LET n == s.n_map_entries + 1
    IN  IF n >= s.bundle_map_size
        THEN [s EXCEPT !.n_map_entries = n,
                       !.bundle_map_size = 2 * s.bundle_map_size,
                       !.bundle_map_rows = Arr(2 * s.bundle_map_size, -1),
                       !.bundle_map_cols = Arr(2 * s.bundle_map_size, -1)]
        ELSE [s EXCEPT !.n_map_entries = n]

increment_n_map_entries(s) ==
    LET n == s.n_map_entries + 1
    IN  IF n >= s.bundle_map_size
        THEN [s EXCEPT !.n_map_entries = n,
                       !.bundle_map_size = 2 * s.bundle_map_size,
                       !.bundle_map_rows = pad(s.bundle_map_rows, 2 * s.bundle_map_size, -1),
                       !.bundle_map_cols = pad(s.bundle_map_cols, 2 * s.bundle_map_size, -1)]
        ELSE [s EXCEPT !.n_map_entries = n]

\* An append that adds one to n_map_entries itself and never grows the map.
AppendEntry_NeverGrows(s, row, col) ==
    IF s.raised # "none" THEN s
    ELSE IF s.n_map_entries \notin DOMAIN s.bundle_map_rows
    THEN [s EXCEPT !.raised = "IndexError"]
    ELSE [s EXCEPT !.bundle_map_rows[s.n_map_entries] = row,
                   !.bundle_map_cols[s.n_map_entries] = col,
                   !.n_map_entries = s.n_map_entries + 1]

\* bundle_map_rows[n_map_entries] = row; bundle_map_cols[n_map_entries] = col;
\* increment_n_map_entries()
AppendEntry(s, row, col) ==
    IF s.raised # "none" THEN s
    ELSE IF s.n_map_entries \notin DOMAIN s.bundle_map_rows
    THEN [s EXCEPT !.raised = "IndexError"]
    ELSE increment_n_map_entries(
            [s EXCEPT !.bundle_map_rows[s.n_map_entries] = row,
                      !.bundle_map_cols[s.n_map_entries] = col])

_create_new_bundles(s, activities) ==
    LET gathered == nucleation_energy_gather(activities, s.nucleation_energy,
                                             s.nucleation_mask)
        size == Size(s.cable_activities)
    IN  IF size > NCables
        THEN [s EXCEPT !.nucleation_energy = gathered, !.raised = "IndexError"]
        ELSE
        LET energy == [p \in DOMAIN gathered |->
                          IF p[1] = p[2] /\ p[1] < size THEN 0 ELSE gathered[p]]
            results == max_dense(energy, Cables, Cables)
            max_energy == results[1]
            cable_index_a == results[2]
            cable_index_b == results[3]
        IN  IF ~(max_energy > Threshold)
            THEN [s EXCEPT !.nucleation_energy = energy]
            ELSE
            LET s1 == AppendEntry([s EXCEPT !.nucleation_energy = energy],
                                  s.n_bundles, cable_index_a)
                s2 == AppendEntry(s1, s.n_bundles, cable_index_b)
                pair == {cable_index_a, cable_index_b}
                mask == [p \in DOMAIN s.nucleation_mask |->
                            IF p \in {<<cable_index_a, cable_index_b>>,
                                      <<cable_index_b, cable_index_a>>}
                            THEN 0 ELSE s.nucleation_mask[p]]
                blocked == {k \in Cables : mask[<<cable_index_a, k>>] = 0}
                           \cup {k \in Cables : mask[<<cable_index_b, k>>] = 0}
                s3 == [s2 EXCEPT
                        !.nucleation_energy =
                            [p \in DOMAIN energy |->
                                IF p[1] \in pair \/ p[2] \in pair THEN 0 ELSE energy[p]],
                        !.agglomeration_energy =
                            [p \in DOMAIN s.agglomeration_energy |->
                                IF p[2] \in pair THEN 0 ELSE s.agglomeration_energy[p]],
                        !.nucleation_mask = mask,
                        !.nucleated = <<cable_index_a, cable_index_b>>]
                n == s.n_bundles + 1
            IN  IF s2.raised # "none" THEN s2
                ELSE IF ~RowIndexOk(s.n_bundles, Bundles, blocked, strict_index)
                THEN [s3 EXCEPT !.raised = "IndexError"]
                ELSE [s3 EXCEPT
                        !.agglomeration_mask =
                            [p \in DOMAIN s.agglomeration_mask |->
                                IF p[1] = s.n_bundles /\ p[2] \in blocked
                                THEN 0 ELSE s.agglomeration_mask[p]],
                        !.n_bundles = n,
                        !.bundles_full = IF n = n THEN TRUE ELSE s.bundles_full]

\* The copy loop of _grow_bundles: entries i..n0-1 of the map that belong to
\* bundle_index are appended again under the new index.
RECURSIVE CopyBundle(_, _, _, _, _)
CopyBundle(s, i, n0, bundle_index, new_index) ==
    IF i >= n0 \/ s.raised # "none" THEN s
    ELSE IF s.bundle_map_rows[i] = bundle_index
    THEN CopyBundle(AppendEntry(s, new_index, s.bundle_map_cols[i]),
                    i + 1, n0, bundle_index, new_index)
    ELSE CopyBundle(s, i + 1, n0, bundle_index, new_index)

_grow_bundles(s, activities) ==
    LET gathered == agglomeration_energy_gather(s.bundle_activities, activities,
                                                s.agglomeration_energy,
                                                s.agglomeration_mask)
        cleared == IF s.n_map_entries > 0
                   THEN set_dense_val(gathered, s.bundle_map_rows, s.bundle_map_cols,
                                      s.n_map_entries, 0, bounds_checked)
                   ELSE [array |-> gathered, raised |-> "none"]
        energy == cleared.array
        results == max_dense(energy, Bundles, Cables)
        max_energy == results[1]
        bundle_index == results[2]
        cable_index == results[3]
    IN  IF cleared.raised # "none"
        THEN [s EXCEPT !.agglomeration_energy = energy, !.raised = cleared.raised]
        ELSE IF ~(max_energy > Threshold)
        THEN [s EXCEPT !.agglomeration_energy = energy]
        ELSE
        LET s1 == CopyBundle([s EXCEPT !.agglomeration_energy = energy],
                             0, s.n_map_entries, bundle_index, s.n_bundles)
            s2 == AppendEntry(s1, s.n_bundles, cable_index)
            blocked == {k \in Cables : s.nucleation_mask[<<cable_index, k>>] = 0}
                       \cup {k \in Cables : s.agglomeration_mask[<<bundle_index, k>>] = 0}
            reset == [p \in DOMAIN energy |->
                         IF p[2] = cable_index \/ p[1] = bundle_index
                         THEN 0 ELSE energy[p]]
            s3 == [s2 EXCEPT
                    !.nucleation_energy =
                        [p \in DOMAIN s.nucleation_energy |->
                            IF p[1] = cable_index \/ p[2] = cable_index
                            THEN 0 ELSE s.nucleation_energy[p]],
                    !.agglomeration_energy = reset,
                    !.grown = <<bundle_index, cable_index>>]
            n == s.n_bundles + 1
        IN  IF s2.raised # "none" THEN s2
            ELSE IF ~RowIndexOk(s.n_bundles, Bundles, blocked, strict_index)
            THEN [s3 EXCEPT !.raised = "IndexError"]
            ELSE [s3 EXCEPT
                    !.agglomeration_energy =
                        [p \in DOMAIN reset |->
                            IF p[1] = s.n_bundles /\ p[2] \in blocked
                            THEN 0 ELSE reset[p]],
                    !.n_bundles = n,
                    !.bundles_full = IF n = n THEN TRUE ELSE s.bundles_full]

\* learn without the tests of bundles_full.
learn_IgnoresFull(s, activities) ==
    LET s1 == _create_new_bundles(s, activities)
    IN  IF s1.raised # "none" THEN s1 ELSE _grow_bundles(s1, activities)

learn(s, activities) ==
    LET s1 == IF ~s.bundles_full THEN _create_new_bundles(s, activities) ELSE s
    IN  IF s1.raised # "none" THEN s1
        ELSE IF ~s1.bundles_full THEN _grow_bundles(s1, activities)
        ELSE s1

\* The loop of featurize over the live map entries i..n-1.
RECURSIVE FeaturizeEntries(_, _, _, _, _, _)
FeaturizeEntries(b_activities, activities, rows, cols, i, n) ==
    IF i >= n THEN [array |-> b_activities, raised |-> "none"]
    ELSE IF rows[i] \notin DOMAIN b_activities \/ cols[i] \notin DOMAIN activities
    THEN [array |-> b_activities, raised |-> "IndexError"]
    ELSE FeaturizeEntries(
            [b_activities EXCEPT ![rows[i]] = Min2(@, activities[cols[i]])],
            activities, rows, cols, i + 1, n)

\* featurize starting from cleared nucleation energy.
featurize_ResetsEnergy(s, new_cable_activities, bundle_weights) ==
    LET filled == Arr(s.n_bundles, Sentinel)
        weights == IF DOMAIN bundle_weights = {} THEN Arr(s.n_bundles, 1)
                   ELSE bundle_weights
        looped == FeaturizeEntries(filled, new_cable_activities,
                                   s.bundle_map_rows, s.bundle_map_cols,
                                   0, s.n_map_entries)
        zeroed == [b \in DOMAIN looped.array |->
                      IF looped.array[b] = Sentinel THEN 0 ELSE looped.array[b]]
        s1 == [s EXCEPT !.cable_activities = new_cable_activities,
                        !.nucleation_energy = [p \in DOMAIN @ |-> 0]]
    IN  IF looped.raised # "none"
        THEN [s1 EXCEPT !.bundle_activities = looped.array,
                        !.raised = looped.raised]
        ELSE IF Size(weights) # Size(zeroed) /\ Size(weights) # 1
        THEN [s1 EXCEPT !.bundle_activities = zeroed, !.raised = "ValueError"]
        ELSE [s1 EXCEPT !.bundle_activities =
                 [b \in DOMAIN zeroed |->
                     zeroed[b] * (IF Size(weights) = 1 THEN weights[0] ELSE weights[b])]]

\* bundle_weights is an array, the empty one standing for None.
featurize(s, new_cable_activities, bundle_weights) ==
    LET filled == Arr(s.n_bundles, Sentinel)
        weights == IF DOMAIN bundle_weights = {} THEN Arr(s.n_bundles, 1)
                   ELSE bundle_weights
        looped == FeaturizeEntries(filled, new_cable_activities,
                                   s.bundle_map_rows, s.bundle_map_cols,
                                   0, s.n_map_entries)
        zeroed == [b \in DOMAIN looped.array |->
                      IF looped.array[b] = Sentinel THEN 0 ELSE looped.array[b]]
        s1 == [s EXCEPT !.cable_activities = new_cable_activities]
    IN  IF looped.raised # "none"
        THEN [s1 EXCEPT !.bundle_activities = looped.array,
                        !.raised = looped.raised]
        ELSE IF Size(weights) # Size(zeroed) /\ Size(weights) # 1
        THEN [s1 EXCEPT !.bundle_activities = zeroed, !.raised = "ValueError"]
        ELSE [s1 EXCEPT !.bundle_activities =
                 [b \in DOMAIN zeroed |->
                     zeroed[b] * (IF Size(weights) = 1 THEN weights[0] ELSE weights[b])]]

\* update_masks giving the child the parents' pairs back.
update_masks_Unblocks(s, child_index, parent_index) ==
    [s EXCEPT !.nucleation_mask =
        [p \in DOMAIN s.nucleation_mask |->
            IF p = <<child_index, child_index>> THEN 0
            ELSE IF (p[1] \in parent_index /\ p[2] = child_index)
                    \/ (p[1] = child_index /\ p[2] \in parent_index)
            THEN 1 ELSE s.nucleation_mask[p]]]

\* parent_index is a list of cable indices.
update_masks(s, child_index, parent_index) ==
    [s EXCEPT !.nucleation_mask =
        [p \in DOMAIN s.nucleation_mask |->
            IF p = <<child_index, child_index>>
               \/ (p[1] \in parent_index /\ p[2] = child_index)
               \/ (p[1] = child_index /\ p[2] \in parent_index)
            THEN 0 ELSE s.nucleation_mask[p]]]

\* ------------------------------------------------------------------ inputs
NoWeights == Arr(0, 1)

OneHot(len, at) == [i \in 0..(len - 1) |-> IF i = at THEN 1 ELSE 0]

\* [1,1,0,0] and [0,0,1,1]
ScenarioA == [c \in Cables |-> IF c \in {0, 1} THEN 1 ELSE 0]

ScenarioB == [c \in Cables |-> IF c \in {2, 3} THEN 1 ELSE 0]

\* Activity vectors handed to learn: one cable active, the two vectors of
\* the scenario, the first of them at twice the activity, and every cable
\* at twice the activity.
LearnVectors ==
    {OneHot(NCables, c) : c \in Cables}
    \cup {ScenarioA, ScenarioB, [c \in Cables |-> 2 * ScenarioA[c]],
          Arr(NCables, 2)}

\* Activity vectors handed to featurize: distinct activities, every activity
\* at the magnitude of the fill value, one vector too short and one too long.
FeaturizeVectors ==
    {[c \in Cables |-> c + 1], Arr(NCables, Sentinel),
     Arr(NCables - 1, 1), Arr(NCables + 1, 1)}

\* bundle_weights handed to featurize: None, or one weight per bundle.
WeightVectors == {NoWeights, OneHot(n_bundles_capacity, 0)}

\* The cable that update_masks is called for: the newest one.
UpdateChildren == {NCables - 1}

\* The parent_index lists handed to update_masks: one parent.
UpdateParents == {{parent} : parent \in Cables}

\* --------------------------------------------------------- the grid world
\* World of src/src/scripts/rosworlds/grid_1D_ms.py.  Action values are
\* multiples of 1/Resolution.  world_state is a binary floating-point number:
\* it is kept in units of 1/Precision, the spacing of the numbers below 1,
\* and the spacing doubles at 1, 2, 4 and 8.  Rewards of rounded actions are
\* whole numbers.

\* Number of subdivisions of a unit of position or action.
Resolution == 2
\* Number of step calls made on the world in one run.
MaxSteps == 3

REWARD_MAGNITUDE == 100
\* 0.01 * REWARD_MAGNITUDE
ENERGY_COST == REWARD_MAGNITUDE \div 100
num_sensors == 9
num_actions == 3

\* The World object: world_state (in 1/Precision), simple_state and
\* timestep, with the argument, the random draw, the return values and the
\* exception of the last step call.
VARIABLE world

all_vars == <<vars, world>>

\* The action argument None.
NoAction == Arr(0, 0)

\* np.round of a value given in 1/Resolution: to the nearest whole number,
\* halves to the even one.
np_round(x) ==
    LET whole == x \div Resolution
        rest == x % Resolution
    IN  IF 2 * rest < Resolution THEN whole
        ELSE IF 2 * rest > Resolution THEN whole + 1
        ELSE IF whole % 2 = 0 THEN whole ELSE whole + 1

\* np.max(a, axis) of a single number: the reduction along its only axis,
\* which is the number itself.
np_max(a, axis) == a

\* The spacing of the floating-point numbers below 1, as a fraction of 1:
\* from 8 on the numbers are 1/Resolution apart.
Precision == 16 * Resolution

\* The distance between neighbouring floating-point numbers at x.
Spacing(x) ==
    LET size == IF x < 0 THEN -x ELSE x
    IN  IF size < Precision THEN 1
        ELSE IF size < 2 * Precision THEN 2
        ELSE IF size < 4 * Precision THEN 4
        ELSE IF size < 8 * Precision THEN 8
        ELSE 16

\* The floating-point number nearest to x, the even one of two equally near.
float(x) ==
    LET spacing == Spacing(x)
        whole == x \div spacing
        rest == x % spacing
    IN  IF 2 * rest < spacing THEN whole * spacing
        ELSE IF 2 * rest > spacing THEN (whole + 1) * spacing
        ELSE IF whole % 2 = 0 THEN whole * spacing ELSE (whole + 1) * spacing

\* World.__init__; timestep is set by the base class.
WorldInit ==
    [world_state |-> 0, simple_state |-> 0, timestep |-> 0,
     sensors |-> Arr(num_sensors, 0), reward |-> 0,
     action |-> NoAction, jumped |-> FALSE, raised |-> "none"]

\* step with the reward cut off at -1 from below.
step_ClipsReward(action, jumped, landing) ==
    LET given == IF action = NoAction THEN Arr(num_actions, 0) ELSE action
        rounded == [i \in DOMAIN given |-> np_round(given[i])]
        energy == rounded[0] + rounded[1]
        moved == float(world.world_state + Precision * (rounded[0] - rounded[1]))
        perturbed == IF jumped THEN landing ELSE moved
        span == num_sensors * Precision
        wrapped == float(perturbed - span * (perturbed \div span))
        simple == wrapped \div Precision
        sensors == [i \in 0..(num_sensors - 1) |-> IF i = simple THEN 1 ELSE 0]
        reward == sensors[8] * (-REWARD_MAGNITUDE) + sensors[3] * REWARD_MAGNITUDE
                  - energy * ENERGY_COST
        w == [world EXCEPT !.world_state = wrapped, !.simple_state = simple,
                           !.timestep = world.timestep + 1,
                           !.action = action, !.jumped = jumped]
    IN  IF simple \notin 0..(num_sensors - 1)
        THEN [w EXCEPT !.raised = "IndexError"]
        ELSE [w EXCEPT !.sensors = sensors,
                       !.reward = IF reward > -1 THEN reward ELSE -1,
                       !.raised = "none"]

\* World.step.  jumped tells whether the random draw fell below
\* JUMP_FRACTION, landing is num_sensors times the second draw.  Each
\* assignment to world_state stores the nearest floating-point number; an
\* exception leaves the attributes assigned before it and returns nothing.
step(action, jumped, landing) ==
    LET given == IF action = NoAction THEN Arr(num_actions, 0) ELSE action
        rounded == [i \in DOMAIN given |-> np_round(given[i])]
        energy == rounded[0] + rounded[1]
        moved == float(world.world_state + Precision * (rounded[0] - rounded[1]))
        perturbed == IF jumped THEN landing ELSE moved
        span == num_sensors * Precision
        wrapped == float(perturbed - span * (perturbed \div span))
        simple == wrapped \div Precision
        sensors == [i \in 0..(num_sensors - 1) |-> IF i = simple THEN 1 ELSE 0]
        reward == sensors[8] * (-REWARD_MAGNITUDE) + sensors[3] * REWARD_MAGNITUDE
                  - energy * ENERGY_COST
        w == [world EXCEPT !.world_state = wrapped, !.simple_state = simple,
                           !.timestep = world.timestep + 1,
                           !.action = action, !.jumped = jumped]
    IN  IF simple \notin 0..(num_sensors - 1)
        THEN [w EXCEPT !.raised = "IndexError"]
        ELSE [w EXCEPT !.sensors = sensors,
                       !.reward = np_max(reward, -1),
                       !.raised = "none"]

\* Action arguments: None, and vectors whose first two values run from 0
\* to 1 + 1/Resolution in steps of 1/Resolution.
Actions ==
    {NoAction} \cup
    {[i \in 0..(num_actions - 1) |-> IF i = 0 THEN a0 ELSE IF i = 1 THEN a1 ELSE 0] :
        a0 \in 0..(Resolution + 1), a1 \in 0..(Resolution + 1)}

\* Values of num_sensors * random_sample(), a number in [0, num_sensors):
\* the multiples of 1/Resolution, and 1 - 5/Precision, which is 9 times the
\* draw (Precision - 5) / (9 * Precision).
Landings ==
    {(Precision \div Resolution) * n : n \in 0..(num_sensors * Resolution - 1)}
    \cup {Precision - 5}

\* ------------------------------------------------------------- the machine
\* Ziptie.__init__ with n_cables = NCables, n_bundles = None and
\* threshold = Threshold.
Init ==
    /\ n_bundles = NCables
    /\ bundles_full = FALSE
    /\ cable_activities = Arr(NCables, 0)
    /\ bundle_activities = Arr(NCables, 0)
    /\ bundle_map_size = InitialMapSize
    /\ bundle_map_rows = Arr(InitialMapSize, -1)
    /\ bundle_map_cols = Arr(InitialMapSize, -1)
    /\ n_map_entries = 0
    /\ agglomeration_energy = [p \in Bundles \X Cables |-> 0]
    /\ agglomeration_mask = [p \in Bundles \X Cables |-> 1]
    /\ nucleation_energy = [p \in Cables \X Cables |-> 0]
    /\ nucleation_mask = [p \in Cables \X Cables |-> 1]
    /\ bounds_checked \in BOOLEAN
    /\ strict_index \in BOOLEAN
    /\ event = [op |-> "init", raised |-> "none", nucleated |-> <<>>,
                grown |-> <<>>, weights |-> NoWeights]
    /\ calls = 0
    /\ scenario = "A"
    /\ world = WorldInit

\* The attributes after a call, and the record of the call.
Commit(s, op, weights) ==
    /\ n_bundles' = s.n_bundles
    /\ bundles_full' = s.bundles_full
    /\ cable_activities' = s.cable_activities
    /\ bundle_activities' = s.bundle_activities
    /\ bundle_map_size' = s.bundle_map_size
    /\ bundle_map_rows' = s.bundle_map_rows
    /\ bundle_map_cols' = s.bundle_map_cols
    /\ n_map_entries' = s.n_map_entries
    /\ agglomeration_energy' = s.agglomeration_energy
    /\ agglomeration_mask' = s.agglomeration_mask
    /\ nucleation_energy' = s.nucleation_energy
    /\ nucleation_mask' = s.nucleation_mask
    /\ event' = [op |-> op, raised |-> s.raised, nucleated |-> s.nucleated,
                 grown |-> s.grown, weights |-> weights]
    /\ calls' = calls + 1
    /\ UNCHANGED <<bounds_checked, strict_index, world>>

\* The run is in phase "A" while every call so far was learn([1,1,0,0]), in
\* phase "B" while those calls were followed, once a bundle existed, by
\* learn([0,0,1,1]) calls only, and "off" otherwise.
ScenarioAfterLearn(activities) ==
    IF scenario = "A" /\ activities = ScenarioA THEN "A"
    ELSE IF scenario \in {"A", "B"} /\ activities = ScenarioB /\ n_map_entries > 0
    THEN "B"
    ELSE "off"

Learn ==
    /\ calls < MaxCalls
    /\ \E activities \in LearnVectors :
        /\ Commit(learn(Self, activities), "learn", NoWeights)
        /\ scenario' = ScenarioAfterLearn(activities)

Featurize ==
    /\ calls < MaxCalls
    /\ \E activities \in FeaturizeVectors, weights \in WeightVectors :
        /\ Commit(featurize(Self, activities, weights), "featurize", weights)
        /\ scenario' = "off"

UpdateMasks ==
    /\ calls < MaxCalls
    /\ \E child_index \in UpdateChildren, parent_index \in UpdateParents :
        /\ Commit(update_masks(Self, child_index, parent_index), "update_masks",
                  NoWeights)
        /\ scenario' = "off"

Next == Learn \/ Featurize \/ UpdateMasks

Spec == Init /\ [][Next]_vars

\* A step call on the world; no engine method is called.
Step ==
    /\ world.timestep < MaxSteps
    /\ \E action \in Actions, jumped \in BOOLEAN :
          \E landing \in (IF jumped THEN Landings ELSE {0}) :
             world' = step(action, jumped, landing)
    /\ UNCHANGED vars

NextWorld == Step

\* The world runs on its own; the engine stays as constructed, in one build.
InitWorld == Init /\ bounds_checked /\ strict_index

SpecWorld == InitWorld /\ [][NextWorld]_all_vars

TypeOK ==
    /\ n_bundles \in Nat
    /\ bundles_full \in BOOLEAN
    /\ n_map_entries \in Nat
    /\ event.raised \in {"none", "IndexError", "ValueError"}

\* ------------------------------------------------------------ projections
\* get_index_projection_cables: the cables mapped to bundle_index.
get_index_projection_cables(bundle_index) ==
    {bundle_map_cols[i] : i \in {j \in 0..(n_map_entries - 1) :
                                    bundle_map_rows[j] = bundle_index}}

\* The bundle indices that occur in the live part of the map
\* (i_bundles_unique of visualize).
i_bundles_unique == {bundle_map_rows[i] : i \in 0..(n_map_entries - 1)}

\* The live part of the bundle map.
LiveMap == [i \in 0..(n_map_entries - 1) |-> <<bundle_map_rows[i], bundle_map_cols[i]>>]

\* A step that is a call of the named method.
Called(op) == calls' = calls + 1 /\ event'.op = op

\* ------------------------------------------------------------------ claims

\* C1: in every reachable state the number of bundles created (the counter
\* that _create_new_bundles and _grow_bundles increment) is at most the
\* capacity fixed at construction, and bundles_full is true exactly when
\* that number equals the capacity.
C1_CreatedWithinCapacity ==
    /\ n_bundles <= n_bundles_capacity
    /\ bundles_full <=> (n_bundles = n_bundles_capacity)

\* C2: once bundles_full is true, a learn call with any activity vector
\* leaves the created-bundle count, the live map entries and their count,
\* both energy matrices and both masks unchanged.
C2_FullLearnChangesNothing ==
    [][(bundles_full /\ Called("learn")) =>
            /\ n_bundles' = n_bundles
            /\ LiveMap' = LiveMap
            /\ n_map_entries' = n_map_entries
            /\ nucleation_energy' = nucleation_energy
            /\ agglomeration_energy' = agglomeration_energy
            /\ nucleation_mask' = nucleation_mask
            /\ agglomeration_mask' = agglomeration_mask]_vars

\* A learn call made on a full engine: bundles_full is only ever set by a
\* call that nucleated or grew a bundle.
C2_Witness ==
    /\ bundles_full
    /\ event.op = "learn"
    /\ event.nucleated = <<>>
    /\ event.grown = <<>>
    /\ n_map_entries > 0

\* C3: every live map entry has its bundle index in [0, n_bundles_capacity)
\* and its cable index in [0, n_cables), and the first bundle created has
\* index 0.
C3_LiveEntriesInRange ==
    /\ \A i \in 0..(n_map_entries - 1) :
            bundle_map_rows[i] \in Bundles /\ bundle_map_cols[i] \in Cables
    /\ n_map_entries > 0 => bundle_map_rows[0] = 0

\* C4: learn called with an activity vector of length n_cables completes
\* without raising, also in the call that creates a bundle.
C4_LearnNeverRaises ==
    event.op = "learn" => event.raised = "none"

\* C5: in the run that feeds [1,1,0,0] to learn until a bundle exists and
\* [0,0,1,1] thereafter, no bundle ever contains both cable 0 and cable 2.
C5_ScenarioKeepsPairsApart ==
    scenario \in {"A", "B"} =>
        \A b \in i_bundles_unique :
            ~({0, 2} \subseteq get_index_projection_cables(b))

\* C6: a learn call never nucleates a bundle from a pair of cables whose
\* nucleation mask is 0 when the call starts.
C6_NoNucleationOfMaskedPair ==
    [][Called("learn") =>
        \A i \in Cables, j \in Cables :
            nucleation_mask[<<i, j>>] = 0 =>
                event'.nucleated \notin {<<i, j>>, <<j, i>>}]_vars

\* C7: an entry of the nucleation mask or of the agglomeration mask that is
\* 0 stays 0 in every step.
C7_MasksStayCleared ==
    [][/\ \A p \in DOMAIN nucleation_mask :
              nucleation_mask[p] = 0 => nucleation_mask'[p] = 0
       /\ \A p \in DOMAIN agglomeration_mask :
              agglomeration_mask[p] = 0 => agglomeration_mask'[p] = 0]_vars

\* A pair cleared by a nucleation and the child's own pair cleared by
\* update_masks, both still cleared after a later learn call.
C7_Witness ==
    /\ event.op = "learn"
    /\ event.nucleated = <<>>
    /\ \E i \in Cables, j \in Cables :
          /\ i # j
          /\ nucleation_mask[<<i, j>>] = 0
          /\ \E k \in 0..(n_map_entries - 2) :
                bundle_map_cols[k] = i /\ bundle_map_cols[k + 1] = j
    /\ \E c \in UpdateChildren : nucleation_mask[<<c, c>>] = 0

\* C8: in every step the live-entry count does not decrease and the entries
\* below the previous live-entry count keep their bundle and cable, also
\* in a step that doubles the backing arrays.
C8_MapIsAppendOnly ==
    [][/\ n_map_entries' >= n_map_entries
       /\ \A i \in 0..(n_map_entries - 1) :
            /\ i \in DOMAIN bundle_map_rows'
            /\ bundle_map_rows'[i] = bundle_map_rows[i]
            /\ bundle_map_cols'[i] = bundle_map_cols[i]]_vars

\* The backing arrays have doubled and every slot of the old arrays is live.
C8_Witness ==
    /\ bundle_map_size = 2 * InitialMapSize
    /\ n_map_entries >= InitialMapSize
    /\ \A i \in 0..(InitialMapSize - 1) : bundle_map_rows[i] # -1

\* C9: the set of cables mapped to a bundle index that is in use is the
\* same after every step.
C9_BundlesAreImmutable ==
    [][\A b \in i_bundles_unique :
          get_index_projection_cables(b)' = get_index_projection_cables(b)]_vars

\* C10: featurize called with n_cables non-negative activities (and weights
\* of the capacity's length, or none) returns, for every bundle, the least
\* activity among the cables mapped to it times the bundle's weight, and 0
\* for a bundle without cables.
C10_FeaturizeIsWeightedMin ==
    (/\ event.op = "featurize"
     /\ Size(cable_activities) = NCables
     /\ Size(event.weights) \in {0, n_bundles_capacity})
    => /\ event.raised = "none"
       /\ \A b \in Bundles \cup i_bundles_unique :
            /\ b \in DOMAIN bundle_activities
            /\ bundle_activities[b] =
                 (IF get_index_projection_cables(b) = {} THEN 0
                  ELSE SetMin({cable_activities[c] :
                                  c \in get_index_projection_cables(b)}))
                 * (IF b \in DOMAIN event.weights THEN event.weights[b] ELSE 1)

\* ------------------------------------------------- projections, continued
\* get_index_projection: zeros, and 1 at every cable mapped to bundle_index.
get_index_projection(bundle_index) ==
    [c \in Cables |-> IF c \in get_index_projection_cables(bundle_index)
                      THEN 1 ELSE 0]

\* The loop of project_bundle_activities over the live map entries i..n-1.
RECURSIVE ProjectEntries(_, _, _, _)
ProjectEntries(c_activities, b_activities, i, n) ==
    IF i >= n THEN [array |-> c_activities, raised |-> "none"]
    ELSE IF bundle_map_rows[i] \notin DOMAIN b_activities
            \/ bundle_map_cols[i] \notin DOMAIN c_activities
    THEN [array |-> c_activities, raised |-> "IndexError"]
    ELSE ProjectEntries(
            [c_activities EXCEPT ![bundle_map_cols[i]] =
                IF @ >= b_activities[bundle_map_rows[i]] THEN @
                ELSE b_activities[bundle_map_rows[i]]],
            b_activities, i + 1, n)

project_bundle_activities(b_activities) ==
    ProjectEntries(Arr(NCables, 0), b_activities, 0, n_map_entries)

\* The attributes that learning reads and writes.
LearningState ==
    <<n_bundles, bundles_full, bundle_map_size, bundle_map_rows,
      bundle_map_cols, n_map_entries, agglomeration_energy,
      agglomeration_mask, nucleation_energy, nucleation_mask>>

\* Every attribute of the engine.
EngineState == <<LearningState, cable_activities, bundle_activities>>

\* C11: featurize called with n_cables non-negative activities (and weights
\* of the capacity's length, or none) returns a vector of length
\* n_bundles_capacity with every entry >= 0.
C11_FeaturizeShapeAndSign ==
    (/\ event.op = "featurize"
     /\ Size(cable_activities) = NCables
     /\ Size(event.weights) \in {0, n_bundles_capacity})
    => /\ event.raised = "none"
       /\ DOMAIN bundle_activities = Bundles
       /\ \A b \in DOMAIN bundle_activities : bundle_activities[b] >= 0

\* C12: a featurize call leaves the bundle map and its live-entry count, the
\* created-bundle count, bundles_full, both energy matrices and both masks
\* as they were.
C12_FeaturizeKeepsLearningState ==
    [][Called("featurize") => LearningState' = LearningState]_vars

\* featurize has stored a new snapshot on an engine that holds bundles and
\* accumulated energy.
C12_Witness ==
    /\ event.op = "featurize"
    /\ n_map_entries > 0
    /\ cable_activities # Arr(NCables, 0)
    /\ \E p \in DOMAIN nucleation_energy : nucleation_energy[p] > 0

\* C13: featurize called with an activity vector whose length is not
\* n_cables ends with an error and leaves every attribute, the stored
\* cable activities included, as it was.
C13_WrongLengthFailsCleanly ==
    [][\A activities \in FeaturizeVectors, weights \in WeightVectors :
          (/\ Size(activities) # NCables
           /\ Commit(featurize(Self, activities, weights), "featurize", weights))
          => (event'.raised # "none" /\ EngineState' = EngineState)]_vars

\* C14: for every bundle in the map, projecting its one-hot bundle-activity
\* vector up gives the 0/1 indicator of its cables, and featurize of that
\* indicator, weighted by the same one-hot vector, gives 1 for the bundle
\* and 0 for every other one.
C14_ProjectionRoundTrip ==
    \A b \in i_bundles_unique :
        LET one_hot == OneHot(n_bundles_capacity, b)
            up == project_bundle_activities(one_hot)
            down == get_index_projection(b)
            back == featurize(Self, down, one_hot)
        IN  /\ up.raised = "none"
            /\ up.array = down
            /\ back.raised = "none"
            /\ b \in DOMAIN back.bundle_activities
            /\ \A x \in DOMAIN back.bundle_activities :
                  back.bundle_activities[x] = (IF x = b THEN 1 ELSE 0)

\* The bundle index a learn call hands out: the value of n_bundles when the
\* call starts.
NewIndex == n_bundles

\* The positions of a bundle's entries among the first n of a map.
EntriesIn(rows, n, bundle_index) ==
    {i \in 0..(n - 1) : rows[i] = bundle_index}

\* The cables those entries name (get_index_projection_cables on a given map).
CablesIn(rows, cols, n, bundle_index) ==
    {cols[i] : i \in EntriesIn(rows, n, bundle_index)}

\* C16: after a learn call that grows source bundle s by cable c into a new
\* bundle, the new bundle's row of agglomeration_mask is 0 at every cable k
\* for which nucleation_mask[c, k] or agglomeration_mask[s, k] was 0.
C16_GrownBundleInheritsBlocks ==
    [][(Called("learn") /\ event'.grown # <<>>) =>
          LET s == event'.grown[1]
              c == event'.grown[2]
          IN  \A k \in Cables :
                 (nucleation_mask[<<c, k>>] = 0 \/ agglomeration_mask[<<s, k>>] = 0)
                 => /\ <<NewIndex, k>> \in DOMAIN agglomeration_mask'
                    /\ agglomeration_mask'[<<NewIndex, k>>] = 0]_vars

\* C17: after a learn call that nucleates a bundle from cables a1 and a2,
\* nucleation_mask is 0 at (a1, a2) and (a2, a1), the new bundle's row of
\* agglomeration_mask is 0 at every cable k for which nucleation_mask[a1, k]
\* or nucleation_mask[a2, k] is 0, and every other row of agglomeration_mask
\* is as before.
C17_NucleatedBundleInheritsBlocks ==
    [][(Called("learn") /\ event'.nucleated # <<>>) =>
          LET a1 == event'.nucleated[1]
              a2 == event'.nucleated[2]
          IN  /\ nucleation_mask'[<<a1, a2>>] = 0
              /\ nucleation_mask'[<<a2, a1>>] = 0
              /\ \A k \in Cables :
                    (nucleation_mask'[<<a1, k>>] = 0 \/ nucleation_mask'[<<a2, k>>] = 0)
                    => /\ <<NewIndex, k>> \in DOMAIN agglomeration_mask'
                       /\ agglomeration_mask'[<<NewIndex, k>>] = 0
              /\ event'.grown = <<>> =>
                    \A p \in DOMAIN agglomeration_mask :
                       p[1] # NewIndex => agglomeration_mask'[p] = agglomeration_mask[p]]_vars

\* C18: a learn call that grows source bundle s by cable c (and nucleates
\* nothing) appends |members(s)| + 1 map entries, all under one bundle index
\* that no entry had before; that bundle's cables are members(s) and c, and
\* the entries of s stay as they were.
C18_GrowthCopiesSourcePlusCable ==
    [][(Called("learn") /\ event'.grown # <<>> /\ event'.nucleated = <<>>) =>
          LET s == event'.grown[1]
              c == event'.grown[2]
              members == get_index_projection_cables(s)
          IN  /\ n_map_entries' = n_map_entries + Cardinality(members) + 1
              /\ \A i \in n_map_entries..(n_map_entries' - 1) :
                    bundle_map_rows'[i] = NewIndex
              /\ NewIndex \notin i_bundles_unique
              /\ CablesIn(bundle_map_rows', bundle_map_cols', n_map_entries', NewIndex)
                    = members \cup {c}
              /\ EntriesIn(bundle_map_rows', n_map_entries', s)
                    = EntriesIn(bundle_map_rows, n_map_entries, s)
              /\ CablesIn(bundle_map_rows', bundle_map_cols', n_map_entries', s)
                    = members]_vars

\* C19: a learn call never grows a bundle by a cable the map already lists
\* for it, and in every reachable state no two live map entries have the
\* same bundle index and the same cable.
C19_NoDuplicateMembership ==
    /\ event.grown # <<>> =>
          Cardinality({i \in 0..(n_map_entries - 1) :
                          /\ bundle_map_rows[i] = event.grown[1]
                          /\ bundle_map_cols[i] = event.grown[2]}) = 0
    /\ \A i, j \in 0..(n_map_entries - 1) :
          (bundle_map_rows[i] = bundle_map_rows[j]
           /\ bundle_map_cols[i] = bundle_map_cols[j]) => i = j

\* C20: a learn call creates at most one bundle by nucleation and at most
\* one by agglomeration, so at most two; each created bundle raises the
\* created-bundle count by one and gets an index below the capacity; no
\* agglomeration follows a nucleation that brought the count to the
\* capacity.
C20_AtMostTwoWithinCapacity ==
    [][Called("learn") =>
          LET nucleations == IF event'.nucleated # <<>> THEN 1 ELSE 0
              growths == IF event'.grown # <<>> THEN 1 ELSE 0
          IN  /\ nucleations + growths <= 2
              /\ n_bundles' = n_bundles + nucleations + growths
              /\ n_bundles' <= n_bundles_capacity
              /\ (nucleations = 1 /\ n_bundles + 1 >= n_bundles_capacity)
                    => growths = 0]_vars

\* The reward of a position before the cost of the action.
PositionReward(position) ==
    IF position = 3 THEN REWARD_MAGNITUDE
    ELSE IF position = 8 THEN -REWARD_MAGNITUDE
    ELSE 0

\* The action vector step works on, in 1/Resolution.
GivenAction == IF world.action = NoAction THEN Arr(num_actions, 0) ELSE world.action

C22_MapStorageInvariant ==
    /\ n_map_entries < bundle_map_size
    /\ \E k \in 0..(2 * MaxCalls) : bundle_map_size = InitialMapSize * 2 ^ k
    /\ DOMAIN bundle_map_rows = 0..(bundle_map_size - 1)
    /\ DOMAIN bundle_map_cols = 0..(bundle_map_size - 1)
    /\ \A i \in n_map_entries..(bundle_map_size - 1) :
          bundle_map_rows[i] = -1 /\ bundle_map_cols[i] = -1
    /\ n_map_entries \in DOMAIN bundle_map_rows

\* The map has been grown: it holds at least as many entries as it had
\* slots at construction.
C22_Witness ==
    /\ n_map_entries >= InitialMapSize
    /\ bundle_map_size = 2 * InitialMapSize
    /\ bundle_map_rows[InitialMapSize - 1] # -1

\* The cable sets of the bundles the last call created: the nucleated pair,
\* and the grown bundle's cables with the cable added to them.
LastCreated ==
    (IF event.nucleated # <<>>
     THEN {{event.nucleated[1], event.nucleated[2]}} ELSE {})
    \cup (IF event.grown # <<>>
          THEN {get_index_projection_cables(event.grown[1]) \cup {event.grown[2]}}
          ELSE {})

\* C23: in every reachable state no two distinct bundle indices of the map
\* have the same set of cables, and no learn call nucleates or grows a
\* bundle whose set of cables is already the set of a bundle in the map or
\* the set of the bundle the call before it created.
C23_NoRedundantBundles ==
    [][Called("learn") =>
          /\ \A b1, b2 \in {bundle_map_rows'[i] : i \in 0..(n_map_entries' - 1)} :
                b1 # b2 =>
                   CablesIn(bundle_map_rows', bundle_map_cols', n_map_entries', b1)
                   # CablesIn(bundle_map_rows', bundle_map_cols', n_map_entries', b2)
          /\ \A created \in LastCreated' :
                /\ \A b \in i_bundles_unique :
                      get_index_projection_cables(b) # created
                /\ created \notin LastCreated]_vars

\* C24: every step call adds 1 to timestep, leaves simple_state a whole
\* number in [0, num_sensors) and returns a sensor vector that is 1 at
\* simple_state and 0 everywhere else; a call without a jump moves
\* simple_state by round(action[0]) - round(action[1]) modulo num_sensors.
C24_PositionAndSensors ==
    [][/\ world'.timestep = world.timestep + 1
       /\ world'.simple_state \in 0..(num_sensors - 1)
       /\ world'.raised = "none"
       /\ world'.sensors = [i \in 0..(num_sensors - 1) |->
                               IF i = world'.simple_state THEN 1 ELSE 0]
       /\ ~world'.jumped =>
             LET given == IF world'.action = NoAction THEN Arr(num_actions, 0)
                          ELSE world'.action
             IN  world'.simple_state =
                    (world.simple_state + np_round(given[0]) - np_round(given[1]))
                    % num_sensors]_all_vars

====
